---- MODULE Spec2Model ----
(***************************************************************************)
(* The borrowing engine of the school library service (models.py, app.py). *)
(*                                                                         *)
(* Every request handler opens its own sqlite3 connection (get_db) and     *)
(* runs the statements of its call (borrow, return_book, the setters of    *)
(* name and age, add_class, remove_class, the teacher views, login) one    *)
(* after the other.  The SELECTs run in autocommit mode and see the        *)
(* committed database; the first write opens the connection's transaction  *)
(* and takes SQLite's write lock, which one connection holds at a time;    *)
(* the writes stay private until db.commit().  One action below is one     *)
(* statement of one handler, so handlers interleave between statements.    *)
(***************************************************************************)
EXTENDS Integers, Sequences, FiniteSets, TLC

\* ---- bounds of the model ----
NProcs == 2        \* request handlers running at once in Spec
NConc == 2         \* request handlers of one concurrent batch in SpecConc
MaxCalls == 3      \* requests served in one behaviour of Spec
MaxSeqCalls == 4   \* requests served in one behaviour of SpecSeq
MaxSeed == 1       \* loans already open when a concurrent batch starts
MaxDay == 1        \* days the clock advances
MaxQuotaCalls == 2 \* requests served in one behaviour of SpecQuota
MaxClassCalls == 2 \* requests served in one behaviour of SpecClass
MaxTxCalls == 3    \* requests served in one behaviour of SpecTx
MaxAllCalls == 2   \* requests served in one behaviour of SpecAll

\* ---- program constants ----
LoanDays == 90
TeacherQuota == 4
StudentQuota == 2

Procs == 1..NProcs
ConcProcs == 1..NConc
SeqProcs == {1}
AllProcs == Procs \cup ConcProcs \cup SeqProcs

\* user table as seeded by init_db: one teacher, two students
Users == {"T001", "S001", "S002"}
UserRole == [u \in Users |-> IF u = "T001" THEN "TEA" ELSE "STU"]

\* a name is the sequence of its characters; the seeded names, shortened
InitName == [u \in Users |-> IF u = "T001" THEN <<"Z">> ELSE IF u = "S001" THEN <<"A">> ELSE <<"B">>]
InitAge == [u \in Users |-> IF u = "T001" THEN 40 ELSE IF u = "S001" THEN 19 ELSE 20]
InitUser == [u \in Users |-> [name |-> InitName[u], age |-> InitAge[u], role |-> UserRole[u]]]
\* the passwords whose hashes init_db stores
Passwords == [u \in Users |-> IF u = "T001" THEN "123456" ELSE "111"]

\* class and student tables as seeded by init_db; no handler writes them
Classes == {"C001", "C002"}
StudentClass == [u \in {"S001", "S002"} |-> "C001"]

\* teacher_class table as seeded by init_db, one row per edge
InitTeacherClass == <<[teacher_uid |-> "T001", class_id |-> "C001"],
                      [teacher_uid |-> "T001", class_id |-> "C002"]>>

\* book table as seeded by init_db: five of the ten titles, in a fixed order
BookSeq == <<"9787302123456", "9787042345678", "9787043456789", "9787301123456", "9787111234567">>
Books == {BookSeq[i] : i \in DOMAIN BookSeq}
InitRemain == [b \in Books |-> IF b = "9787302123456" THEN 2
                               ELSE IF b = "9787301123456" THEN 4
                               ELSE IF b = "9787111234567" THEN 5 ELSE 3]
UnknownIsbn == "0000000000000"
\* the titles the clients of Spec, SpecSeq and SpecConc ask for
Shelf == {"9787302123456", "9787042345678", "9787043456789"}
Isbns == Shelf \cup {UnknownIsbn}

VARIABLES
    db,       \* committed database: [remain: book.remain by isbn, rows: borrow table, row id = index,
              \*                      user: user table by uid, teacher_class: its rows]
    tx,       \* database as the connection holding the write lock sees it
    writer,   \* handler holding SQLite's write lock, 0 when free
    pc,       \* statement each handler is at
    call,     \* request each handler serves: [op, uid, isbn, borrow_id, class_id, student_uid, name, age, pwd]
    loc,      \* local variables of the handler: book, borrowed, br, the user object's role and
              \* name, the session's role, the exception message, the flashes, the rendered data
    result,   \* how the handler's call ended
    pre,      \* history: committed database when the handler's call started
    prev,     \* history: the handler's previous call, its result and its pre
    today,    \* datetime.date.today() as a day number
    ncalls    \* requests started so far

vars == <<db, tx, writer, pc, call, loc, result, pre, prev, today, ncalls>>

\* ---------------------------------------------------------------- queries

\* User.quota
Quota(role) == IF role = "TEA" THEN TeacherQuota ELSE StudentQuota

\* ids of the rows of `SELECT ... FROM borrow WHERE uid=? AND returned=0`
OpenOf(rows, uid) == {i \in 1..Len(rows) : rows[i].uid = uid /\ rows[i].returned = 0}

\* ids of the rows of `SELECT 1 FROM borrow WHERE uid=? AND isbn=? AND returned=0`
OpenOfBook(rows, uid, isbn) == {i \in OpenOf(rows, uid) : rows[i].isbn = isbn}

\* ids of the open rows against one isbn, whoever holds them
OpenLoansOn(rows, isbn) == {i \in 1..Len(rows) : rows[i].isbn = isbn /\ rows[i].returned = 0}

\* `SELECT COUNT(*) FROM borrow WHERE uid=? AND returned=0`
CountOpen(rows, uid) == Cardinality(OpenOf(rows, uid))

\* `SELECT * FROM book WHERE isbn=?`
SelectBook(d, isbn) ==
    IF isbn \in DOMAIN d.remain
    THEN [found |-> TRUE, remain |-> d.remain[isbn]]
    ELSE [found |-> FALSE, remain |-> 0]

\* `if not book or book["remain"] <= 0`
NoStock(bk) == ~bk.found \/ bk.remain <= 0

\* mutant of QuotaFull: the comparison is strict
QuotaFull_Strict(borrowed, quota) == borrowed > quota

\* `if borrowed >= self.quota`
QuotaFull(borrowed, quota) == borrowed >= quota

\* mutant of SelectLoan: the query does not filter on uid
SelectLoan_AnyOwner(rows, borrow_id, uid) ==
    {i \in 1..Len(rows) : i = borrow_id /\ rows[i].returned = 0}

\* ids of the rows of `SELECT * FROM borrow WHERE id=? AND uid=? AND returned=0`
SelectLoan(rows, borrow_id, uid) ==
    {i \in 1..Len(rows) : i = borrow_id /\ rows[i].uid = uid /\ rows[i].returned = 0}

\* ---------------------------------------------------------------- writes

\* mutant of InsertBorrow: the new loan takes the row of a returned loan when there is one
InsertBorrow_ReusesRow(d, uid, isbn, day) ==
    LET new == [uid |-> uid, isbn |-> isbn, borrow_date |-> day,
                due_date |-> day + LoanDays, returned |-> 0]
        closed == {i \in 1..Len(d.rows) : d.rows[i].returned = 1}
    IN  IF closed = {}
        THEN [d EXCEPT !.rows = Append(@, new)]
        ELSE [d EXCEPT !.rows[CHOOSE i \in closed : TRUE] = new]

\* `INSERT INTO borrow(uid,isbn,borrow_date,due_date,returned) VALUES(?,?,?,?,0)`
InsertBorrow(d, uid, isbn, day) ==
    [d EXCEPT !.rows = Append(@, [uid |-> uid, isbn |-> isbn, borrow_date |-> day,
                                  due_date |-> day + LoanDays, returned |-> 0])]

\* mutant of DecrementRemain: the UPDATE has no WHERE clause
DecrementRemain_AllTitles(d, isbn) == [d EXCEPT !.remain = [b \in DOMAIN @ |-> @[b] - 1]]

\* `UPDATE book SET remain=remain-1 WHERE isbn=?`
DecrementRemain(d, isbn) ==
    IF isbn \in DOMAIN d.remain THEN [d EXCEPT !.remain[isbn] = @ - 1] ELSE d

\* mutant of MarkReturned: the UPDATE closes every loan of the same title
MarkReturned_AllOfTitle(d, borrow_id) ==
    IF borrow_id \in 1..Len(d.rows)
    THEN [d EXCEPT !.rows = [i \in DOMAIN d.rows |->
                                IF d.rows[i].isbn = d.rows[borrow_id].isbn
                                THEN [d.rows[i] EXCEPT !.returned = 1]
                                ELSE d.rows[i]]]
    ELSE d

\* mutant of MarkReturned: the row stays open
MarkReturned_Lost(d, borrow_id) == d

\* `UPDATE borrow SET returned=1 WHERE id=?`
MarkReturned(d, borrow_id) ==
    IF borrow_id \in 1..Len(d.rows) THEN [d EXCEPT !.rows[borrow_id].returned = 1] ELSE d

\* mutant of IncrementRemain: the update is lost
IncrementRemain_Lost(d, isbn) == d

\* `UPDATE book SET remain=remain+1 WHERE isbn=?`
IncrementRemain(d, isbn) ==
    IF isbn \in DOMAIN d.remain THEN [d EXCEPT !.remain[isbn] = @ + 1] ELSE d

\* ---------------------------------------------------------------- handlers

NoCall == [op |-> "none", uid |-> "none", isbn |-> "none", borrow_id |-> 0,
           class_id |-> "none", student_uid |-> "none", name |-> <<>>, age |-> "", pwd |-> ""]
NoMsg == [teacher_limit |-> 0, student_limit |-> 0, current |-> 0]
NoView == [kind |-> "none", students |-> {}, loans |-> {}]
NoLoc == [book |-> [found |-> FALSE, remain |-> 0], borrowed |-> 0, br |-> "none",
          role |-> "none", session_role |-> "none", name |-> <<>>,
          msg |-> NoMsg, flash |-> {}, view |-> NoView]
EmptyDb == [remain |-> InitRemain, rows |-> <<>>, user |-> InitUser, teacher_class |-> InitTeacherClass]
NoPrev == [call |-> NoCall, result |-> "none", pre |-> EmptyDb]

\* the requests a client can send in the state `d`: POST /borrow with any isbn,
\* GET /return/<id> with the id of any row or one past the last
Requests(d) ==
    {[NoCall EXCEPT !.op = "borrow", !.uid = u, !.isbn = i] : u \in Users, i \in Isbns}
    \cup {[NoCall EXCEPT !.op = "return", !.uid = u, !.borrow_id = n] :
            u \in Users, n \in 1..(Len(d.rows) + 1)}

FirstPc(c) ==
    CASE c.op = "borrow" -> "b_book"
      [] c.op = "return" -> "r_select"
      [] c.op \in {"class_add", "class_remove", "class_students", "student_borrow"} -> "t_gate"
      [] c.op = "class_borrow" -> "cb_select"
      [] c.op = "update" -> "u_name"
      [] c.op = "login" -> "l_select"
      [] OTHER -> "done"

\* User.login builds a Teacher for a row with role TEA and a Student for any
\* other, and the route keeps the object's role in session["role"] for the
\* routes of teachers; no handler writes the column, so the role the session
\* got at login is the role login would give when the request is served
SessionRole(d, uid) == IF d.user[uid].role = "TEA" THEN "TEA" ELSE "STU"

\* mutant of CurrentUserRole: the user object keeps the default of User.__init__
CurrentUserRole_Default(d, uid) == "STU"

\* current_user: `user.role = row["role"]` of the row read for this request
CurrentUserRole(d, uid) == d.user[uid].role

\* current_user: the local variables of a handler that starts to serve `c`
StartLoc(d, c) ==
    IF c.op = "login" THEN NoLoc
    ELSE [NoLoc EXCEPT !.role = CurrentUserRole(d, c.uid),
                       !.session_role = SessionRole(d, c.uid),
                       !.name = d.user[c.uid].name]

End(p, r) ==
    /\ pc' = [pc EXCEPT ![p] = "done"]
    /\ result' = [result EXCEPT ![p] = r]

\* app.borrow / app.return_book: current_user(), then the call.  `hist` says
\* whether the history variables pre and prev are recorded.
Request(p, limit, hist) ==
    /\ pc[p] \in {"idle", "done"}
    /\ ncalls < limit
    /\ \E c \in Requests(db) :
        /\ call' = [call EXCEPT ![p] = c]
        /\ pc' = [pc EXCEPT ![p] = FirstPc(c)]
    /\ loc' = [loc EXCEPT ![p] = StartLoc(db, call'[p])]
    /\ result' = [result EXCEPT ![p] = "none"]
    /\ pre' = [pre EXCEPT ![p] = IF hist THEN db ELSE @]
    /\ prev' = [prev EXCEPT ![p] =
                  IF hist /\ pc[p] = "done"
                  THEN [call |-> call[p], result |-> result[p], pre |-> pre[p]]
                  ELSE @]
    /\ ncalls' = ncalls + 1
    /\ UNCHANGED <<db, tx, writer, today>>

\* borrow, step 1: the book exists and has copies left
BorrowSelectBook(p) ==
    /\ pc[p] = "b_book"
    /\ LET bk == SelectBook(db, call[p].isbn) IN
        /\ loc' = [loc EXCEPT ![p].book = bk]
        /\ IF NoStock(bk)
           THEN End(p, "NoBook")
           ELSE /\ pc' = [pc EXCEPT ![p] = "b_dup"]
                /\ UNCHANGED result
    /\ UNCHANGED <<db, tx, writer, call, pre, prev, today, ncalls>>

\* mutant of BorrowSelectDup: the duplicate check is not made before the quota check
BorrowSelectDup_Skipped(p) ==
    /\ pc[p] = "b_dup"
    /\ pc' = [pc EXCEPT ![p] = "b_count"]
    /\ UNCHANGED <<db, tx, writer, call, loc, result, pre, prev, today, ncalls>>

\* borrow, step 2: no open loan of the same book by the same user
BorrowSelectDup(p) ==
    /\ pc[p] = "b_dup"
    /\ IF OpenOfBook(db.rows, call[p].uid, call[p].isbn) # {}
       THEN End(p, "HasBorrowed")
       ELSE /\ pc' = [pc EXCEPT ![p] = "b_count"]
            /\ UNCHANGED result
    /\ UNCHANGED <<db, tx, writer, call, loc, pre, prev, today, ncalls>>

\* mutant of OutOfQuotaMessage: the count in the text is the count after the refused loan
OutOfQuotaMessage_OneMore(borrowed) ==
    [teacher_limit |-> 4, student_limit |-> 2, current |-> borrowed + 1]

\* f"额度已满（教师 4 本/学生 2 本），当前已借 {borrowed} 本": the numbers of the
\* text of OutOfQuota; both limits are written in the text itself
OutOfQuotaMessage(borrowed) ==
    [teacher_limit |-> 4, student_limit |-> 2, current |-> borrowed]

\* mutant of BorrowSelectCount: the loan is inserted and committed before the
\* quota is checked
BorrowSelectCount_AfterInsert(p) ==
    /\ pc[p] = "b_count"
    /\ LET borrowed == CountOpen(db.rows, call[p].uid) IN
        /\ loc' = [loc EXCEPT ![p].borrowed = borrowed]
        /\ IF QuotaFull(borrowed, Quota(loc[p].role))
           THEN /\ End(p, "OutOfQuota")
                /\ db' = InsertBorrow(db, call[p].uid, call[p].isbn, today)
           ELSE /\ pc' = [pc EXCEPT ![p] = "b_insert"]
                /\ UNCHANGED <<result, db>>
    /\ UNCHANGED <<tx, writer, call, pre, prev, today, ncalls>>

\* borrow, step 3: the quota of the user's role
BorrowSelectCount(p) ==
    /\ pc[p] = "b_count"
    /\ LET borrowed == CountOpen(db.rows, call[p].uid) IN
        /\ loc' = [loc EXCEPT ![p].borrowed = borrowed,
                              ![p].msg = IF QuotaFull(borrowed, Quota(loc[p].role))
                                         THEN OutOfQuotaMessage(borrowed) ELSE @]
        /\ IF QuotaFull(borrowed, Quota(loc[p].role))
           THEN End(p, "OutOfQuota")
           ELSE /\ pc' = [pc EXCEPT ![p] = "b_insert"]
                /\ UNCHANGED result
    /\ UNCHANGED <<db, tx, writer, call, pre, prev, today, ncalls>>

\* borrow, step 4: the INSERT opens the transaction and takes the write lock
BorrowInsert(p) ==
    /\ pc[p] = "b_insert"
    /\ writer = 0
    /\ writer' = p
    /\ tx' = InsertBorrow(db, call[p].uid, call[p].isbn, today)
    /\ pc' = [pc EXCEPT ![p] = "b_update"]
    /\ UNCHANGED <<db, call, loc, result, pre, prev, today, ncalls>>

BorrowUpdateBook(p) ==
    /\ pc[p] = "b_update"
    /\ writer = p
    /\ tx' = DecrementRemain(tx, call[p].isbn)
    /\ pc' = [pc EXCEPT ![p] = "b_commit"]
    /\ UNCHANGED <<db, writer, call, loc, result, pre, prev, today, ncalls>>

BorrowCommit(p) ==
    /\ pc[p] = "b_commit"
    /\ writer = p
    /\ db' = tx
    /\ writer' = 0
    /\ End(p, "OK")
    /\ UNCHANGED <<tx, call, loc, pre, prev, today, ncalls>>

\* return_book: the open loan with this id owned by this user
ReturnSelect(p) ==
    /\ pc[p] = "r_select"
    /\ LET br == SelectLoan(db.rows, call[p].borrow_id, call[p].uid) IN
        IF br = {}
        THEN /\ End(p, "LibException")
             /\ UNCHANGED loc
        ELSE /\ loc' = [loc EXCEPT ![p].br = db.rows[call[p].borrow_id].isbn]
             /\ pc' = [pc EXCEPT ![p] = "r_update"]
             /\ UNCHANGED result
    /\ UNCHANGED <<db, tx, writer, call, pre, prev, today, ncalls>>

\* return_book: the first UPDATE opens the transaction and takes the write lock
ReturnUpdateBorrow(p) ==
    /\ pc[p] = "r_update"
    /\ writer = 0
    /\ writer' = p
    /\ tx' = MarkReturned(db, call[p].borrow_id)
    /\ pc' = [pc EXCEPT ![p] = "r_book"]
    /\ UNCHANGED <<db, call, loc, result, pre, prev, today, ncalls>>

ReturnUpdateBook(p) ==
    /\ pc[p] = "r_book"
    /\ writer = p
    /\ tx' = IncrementRemain(tx, loc[p].br)
    /\ pc' = [pc EXCEPT ![p] = "r_commit"]
    /\ UNCHANGED <<db, writer, call, loc, result, pre, prev, today, ncalls>>

ReturnCommit(p) ==
    /\ pc[p] = "r_commit"
    /\ writer = p
    /\ db' = tx
    /\ writer' = 0
    /\ End(p, "OK")
    /\ UNCHANGED <<tx, call, loc, pre, prev, today, ncalls>>

\* sqlite3.connect's busy timeout runs out while another connection holds the
\* write lock: the statement raises sqlite3.OperationalError, nothing is written
SqliteBusy(p) ==
    /\ pc[p] \in {"b_insert", "r_update"}
    /\ writer \notin {0, p}
    /\ End(p, "OperationalError")
    /\ UNCHANGED <<db, tx, writer, call, loc, pre, prev, today, ncalls>>

\* the date changes
Tick ==
    /\ today < MaxDay
    /\ today' = today + 1
    /\ UNCHANGED <<db, tx, writer, pc, call, loc, result, pre, prev, ncalls>>

\* ---------------------------------------------------------------- specifications

Init ==
    /\ db = EmptyDb
    /\ tx = EmptyDb
    /\ writer = 0
    /\ pc = [p \in AllProcs |-> "idle"]
    /\ call = [p \in AllProcs |-> NoCall]
    /\ loc = [p \in AllProcs |-> NoLoc]
    /\ result = [p \in AllProcs |-> "none"]
    /\ pre = [p \in AllProcs |-> EmptyDb]
    /\ prev = [p \in AllProcs |-> NoPrev]
    /\ today = 0
    /\ ncalls = 0

Next ==
    \/ \E p \in Procs : Request(p, MaxCalls, FALSE)
    \/ \E p \in Procs : BorrowSelectBook(p)
    \/ \E p \in Procs : BorrowSelectDup(p)
    \/ \E p \in Procs : BorrowSelectCount(p)
    \/ \E p \in Procs : BorrowInsert(p)
    \/ \E p \in Procs : BorrowUpdateBook(p)
    \/ \E p \in Procs : BorrowCommit(p)
    \/ \E p \in Procs : ReturnSelect(p)
    \/ \E p \in Procs : ReturnUpdateBorrow(p)
    \/ \E p \in Procs : ReturnUpdateBook(p)
    \/ \E p \in Procs : ReturnCommit(p)
    \/ \E p \in Procs : SqliteBusy(p)
    \/ Tick

\* requests interleaved statement by statement
Spec == Init /\ [][Next]_vars

NextSeq ==
    \/ \E p \in SeqProcs : Request(p, MaxSeqCalls, TRUE)
    \/ \E p \in SeqProcs : BorrowSelectBook(p)
    \/ \E p \in SeqProcs : BorrowSelectDup(p)
    \/ \E p \in SeqProcs : BorrowSelectCount(p)
    \/ \E p \in SeqProcs : BorrowInsert(p)
    \/ \E p \in SeqProcs : BorrowUpdateBook(p)
    \/ \E p \in SeqProcs : BorrowCommit(p)
    \/ \E p \in SeqProcs : ReturnSelect(p)
    \/ \E p \in SeqProcs : ReturnUpdateBorrow(p)
    \/ \E p \in SeqProcs : ReturnUpdateBook(p)
    \/ \E p \in SeqProcs : ReturnCommit(p)

\* requests served one after the other, each to its end
SpecSeq == Init /\ [][NextSeq]_vars

\* ---------------------------------------------------------------- a call run alone

\* the borrower passes the three checks of borrow in the database `d`
Eligible(d, uid, isbn) ==
    /\ ~NoStock(SelectBook(d, isbn))
    /\ OpenOfBook(d.rows, uid, isbn) = {}
    /\ ~QuotaFull(CountOpen(d.rows, uid), Quota(CurrentUserRole(d, uid)))

\* User.borrow run from its first statement to its last with no other handler between
SerialBorrow(d, c, day) ==
    IF NoStock(SelectBook(d, c.isbn)) THEN [db |-> d, result |-> "NoBook"]
    ELSE IF OpenOfBook(d.rows, c.uid, c.isbn) # {} THEN [db |-> d, result |-> "HasBorrowed"]
    ELSE IF QuotaFull(CountOpen(d.rows, c.uid), Quota(CurrentUserRole(d, c.uid)))
         THEN [db |-> d, result |-> "OutOfQuota"]
    ELSE [db |-> DecrementRemain(InsertBorrow(d, c.uid, c.isbn, day), c.isbn), result |-> "OK"]

\* User.return_book run from its first statement to its last with no other handler between
SerialReturn(d, c) ==
    IF SelectLoan(d.rows, c.borrow_id, c.uid) = {} THEN [db |-> d, result |-> "LibException"]
    ELSE [db |-> IncrementRemain(MarkReturned(d, c.borrow_id), d.rows[c.borrow_id].isbn),
          result |-> "OK"]

SerialCall(d, c, day) == IF c.op = "borrow" THEN SerialBorrow(d, c, day) ELSE SerialReturn(d, c)

\* the calls of the handlers order[i], order[i+1], ... run one after the other from `d`
RECURSIVE RunSerial(_, _, _, _)
RunSerial(d, res, order, i) ==
    IF i > Len(order) THEN [db |-> d, result |-> res]
    ELSE LET o == SerialCall(d, call[order[i]], today) IN
         RunSerial(o.db, [res EXCEPT ![order[i]] = o.result], order, i + 1)

\* the databases a run of at most n successful borrows, one after the other, leaves
RECURSIVE SeedDbs(_)
SeedDbs(n) ==
    IF n = 0 THEN {EmptyDb}
    ELSE LET S == SeedDbs(n - 1) IN
         S \cup {SerialBorrow(d, [NoCall EXCEPT !.op = "borrow", !.uid = u, !.isbn = b], 0).db :
                    d \in S, u \in Users, b \in Shelf}

\* ---------------------------------------------------------------- a concurrent batch

\* every handler of the batch has received its request; none has run a statement
InitConc ==
    /\ db \in SeedDbs(MaxSeed)
    /\ tx = db
    /\ writer = 0
    /\ call \in [AllProcs -> Requests(db)]
    /\ pc = [p \in AllProcs |-> IF p \in ConcProcs THEN FirstPc(call[p]) ELSE "idle"]
    /\ \A p \in AllProcs \ ConcProcs : call[p] = CHOOSE c \in Requests(db) : TRUE
    /\ loc = [p \in AllProcs |-> StartLoc(db, call[p])]
    /\ result = [p \in AllProcs |-> "none"]
    /\ pre = [p \in AllProcs |-> db]
    /\ prev = [p \in AllProcs |-> NoPrev]
    /\ today = 0
    /\ ncalls = NConc

NextConc ==
    \/ \E p \in ConcProcs : BorrowSelectBook(p)
    \/ \E p \in ConcProcs : BorrowSelectDup(p)
    \/ \E p \in ConcProcs : BorrowSelectCount(p)
    \/ \E p \in ConcProcs : BorrowInsert(p)
    \/ \E p \in ConcProcs : BorrowUpdateBook(p)
    \/ \E p \in ConcProcs : BorrowCommit(p)
    \/ \E p \in ConcProcs : ReturnSelect(p)
    \/ \E p \in ConcProcs : ReturnUpdateBorrow(p)
    \/ \E p \in ConcProcs : ReturnUpdateBook(p)
    \/ \E p \in ConcProcs : ReturnCommit(p)
    \/ \E p \in ConcProcs : SqliteBusy(p)

\* one batch of requests, all in flight at once, interleaved statement by statement
SpecConc == InitConc /\ [][NextConc]_vars

\* the batch is over and no handler ran into the busy timeout
BatchDone ==
    \A p \in ConcProcs : pc[p] = "done" /\ result[p] # "OperationalError"

\* ---------------------------------------------------------------- claims

BorrowCallOf(p, b) == call[p].op = "borrow" /\ call[p].isbn = b

\* the batch is nothing but borrows of the book b, whose remain is 1 when the batch
\* starts, by borrowers who differ from each other and each pass all three checks
LastCopyBatch(b) ==
    /\ \A p \in ConcProcs :
        /\ BorrowCallOf(p, b)
        /\ pre[p].remain[b] = 1
        /\ Eligible(pre[p], call[p].uid, b)
    /\ \A p, q \in ConcProcs : p # q => call[p].uid # call[q].uid

\* C1: when borrow calls by different eligible borrowers run concurrently for a book
\* whose remaining-copies is 1, exactly one succeeds and creates a loan, every other
\* call fails with NoBook, and remaining-copies ends at 0.
C1_LastCopyExactlyOneBorrows ==
    \A b \in Books :
        (LastCopyBatch(b) /\ BatchDone) =>
            /\ Cardinality({p \in ConcProcs : result[p] = "OK"}) = 1
            /\ \A p \in ConcProcs : result[p] \in {"OK", "NoBook"}
            /\ Cardinality(OpenLoansOn(db.rows, b)) = Cardinality(OpenLoansOn(pre[1].rows, b)) + 1
            /\ db.remain[b] = 0

\* C2: in every reachable state, for every book remaining-copies >= 0 and
\* remaining-copies = initial stock - number of open loans against that ISBN.
C2_RemainIsStockMinusOpenLoans ==
    \A b \in Books :
        /\ db.remain[b] >= 0
        /\ db.remain[b] = InitRemain[b] - Cardinality(OpenLoansOn(db.rows, b))

\* C3: in every reachable state, every (borrower, ISBN) pair has at most one open
\* loan, also when the same borrower borrows the same ISBN from two sessions at once.
C3_AtMostOneOpenLoanPerPair ==
    \A u \in Users, b \in Books : Cardinality(OpenOfBook(db.rows, u, b)) <= 1

\* C4: in every reachable state, every borrower's number of open loans is at most
\* the quota of the borrower's role (Teacher 4, Student 2).
C4_OpenLoansWithinQuota ==
    \A u \in Users : CountOpen(db.rows, u) <= Quota(UserRole[u])

\* the handler p ends a borrow call in this step
BorrowEnds(p) == call[p].op = "borrow" /\ pc[p] # "done" /\ pc'[p] = "done"

\* C5 as stated: a borrow call fails with OutOfQuota if and only if the borrower's
\* current open-loan count is >= the quota of their role.
C5_OutOfQuotaIffCountAtQuota ==
    [][\A p \in AllProcs :
          BorrowEnds(p) =>
              (result'[p] = "OutOfQuota"
                  <=> CountOpen(db.rows, call[p].uid) >= Quota(UserRole[call[p].uid]))]_vars

\* C5 as amended: a borrow call fails with OutOfQuota if and only if its stock check
\* and its duplicate check have passed and the borrower's open-loan count, as its
\* quota check then reads it, is >= the quota of their role: a statement of a borrow
\* call ends the call with OutOfQuota exactly when it is the quota check and the
\* count is >= the quota.
C5_OutOfQuotaIffQuotaCheckReachedAndFull ==
    [][\A p \in AllProcs :
          (call[p].op = "borrow" /\ pc'[p] # pc[p]) =>
              ((pc'[p] = "done" /\ result'[p] = "OutOfQuota")
                  <=> /\ pc[p] = "b_count"
                      /\ CountOpen(db.rows, call[p].uid) >= Quota(UserRole[call[p].uid]))]_vars

\* a borrow call of a borrower at quota ended with OutOfQuota
C5_Witness ==
    \E p \in AllProcs :
        /\ pc[p] = "done" /\ call[p].op = "borrow" /\ result[p] = "OutOfQuota"
        /\ CountOpen(db.rows, call[p].uid) >= Quota(UserRole[call[p].uid])

\* the three failure conditions of the borrow call c in the database d
CondNoBook(d, c) == c.isbn \notin DOMAIN d.remain \/ d.remain[c.isbn] <= 0
CondHasBorrowed(d, c) ==
    \E i \in 1..Len(d.rows) :
        d.rows[i].uid = c.uid /\ d.rows[i].isbn = c.isbn /\ d.rows[i].returned = 0
CondOutOfQuota(d, c) ==
    Cardinality({i \in 1..Len(d.rows) : d.rows[i].uid = c.uid /\ d.rows[i].returned = 0})
        >= (IF UserRole[c.uid] = "TEA" THEN 4 ELSE 2)

\* C6: borrow reports the first failure in the order stock, duplicate, quota: NoBook
\* whenever the book is absent or out of stock, HasBorrowed whenever it is in stock
\* and the borrower holds an open loan of it, OutOfQuota whenever neither holds and
\* the borrower is at quota (conditions taken in the database the call started in).
C6_FirstFailingCheckIsReported ==
    \A p \in SeqProcs :
        (pc[p] = "done" /\ call[p].op = "borrow") =>
            /\ CondNoBook(pre[p], call[p]) => result[p] = "NoBook"
            /\ (~CondNoBook(pre[p], call[p]) /\ CondHasBorrowed(pre[p], call[p]))
                   => result[p] = "HasBorrowed"
            /\ (~CondNoBook(pre[p], call[p]) /\ ~CondHasBorrowed(pre[p], call[p])
                    /\ CondOutOfQuota(pre[p], call[p]))
                   => result[p] = "OutOfQuota"

\* a borrower at quota who holds an open loan of an out-of-stock ISBN got NoBook
C6_Witness ==
    \E p \in SeqProcs :
        /\ pc[p] = "done" /\ call[p].op = "borrow"
        /\ call[p].isbn \in Books
        /\ CondNoBook(pre[p], call[p])
        /\ CondHasBorrowed(pre[p], call[p])
        /\ CondOutOfQuota(pre[p], call[p])
        /\ result[p] = "NoBook"

\* C7: for every interleaving of a batch of concurrent borrow and returnBook calls,
\* the results returned to the callers and the final store state equal those of
\* some serial execution of the same calls.
C7_BatchEqualsSomeSerialRun ==
    BatchDone =>
        \E order \in Permutations(ConcProcs) :
            LET o == RunSerial(pre[1], [p \in AllProcs |-> "none"], order, 1) IN
                /\ o.db = db
                /\ \A p \in ConcProcs : o.result[p] = result[p]

\* C8: returnBook fails with the generic library error whenever no loan with that id
\* exists, or the loan is already returned, or it belongs to a different borrower,
\* and then no loan's returned flag and no book's remaining-copies changes.
C8_BadReturnFailsAndChangesNothing ==
    \A p \in SeqProcs :
        (pc[p] = "done" /\ call[p].op = "return") =>
            LET rows == pre[p].rows
                id == call[p].borrow_id
                absent == id \notin 1..Len(rows)
                closed == ~absent /\ rows[id].returned = 1
                foreign == ~absent /\ rows[id].uid # call[p].uid
            IN (absent \/ closed \/ foreign) => (result[p] = "LibException" /\ db = pre[p])

\* a return of another borrower's open loan has failed
C8_Witness ==
    \E p \in SeqProcs :
        /\ pc[p] = "done" /\ call[p].op = "return"
        /\ call[p].borrow_id \in 1..Len(pre[p].rows)
        /\ pre[p].rows[call[p].borrow_id].returned = 0
        /\ pre[p].rows[call[p].borrow_id].uid # call[p].uid
        /\ result[p] = "LibException"

\* the batch is nothing but returns of the open loan id by its owner
DoubleReturnBatch(id) ==
    \A p \in ConcProcs :
        /\ call[p].op = "return" /\ call[p].borrow_id = id
        /\ id \in 1..Len(pre[p].rows)
        /\ pre[p].rows[id].returned = 0
        /\ pre[p].rows[id].uid = call[p].uid

\* C9: when returnBook calls for the same open loan by its owner run concurrently,
\* exactly one succeeds, remaining-copies is incremented exactly once, and the
\* other call fails as already returned.
C9_ConcurrentReturnsIncrementOnce ==
    \A id \in 1..Len(pre[1].rows) :
        (DoubleReturnBatch(id) /\ BatchDone) =>
            LET b == pre[1].rows[id].isbn IN
                /\ Cardinality({p \in ConcProcs : result[p] = "OK"}) = 1
                /\ \A p \in ConcProcs : result[p] \in {"OK", "LibException"}
                /\ db.remain[b] = pre[1].remain[b] + 1
                /\ db.rows[id].returned = 1

\* the handler p has just run, with nothing between, a returnBook that succeeded on
\* a loan of the book b whose remaining-copies was 0, and then a borrow of b by a
\* different borrower who was under quota and held no open loan of b
ReturnThenBorrow(p, b) ==
    /\ pc[p] = "done" /\ call[p].op = "borrow" /\ call[p].isbn = b
    /\ prev[p].call.op = "return" /\ prev[p].result = "OK"
    /\ prev[p].call.borrow_id \in 1..Len(prev[p].pre.rows)
    /\ prev[p].pre.rows[prev[p].call.borrow_id].isbn = b
    /\ prev[p].pre.remain[b] = 0
    /\ prev[p].call.uid # call[p].uid
    /\ ~CondOutOfQuota(pre[p], call[p])
    /\ ~CondHasBorrowed(pre[p], call[p])

\* C10: for a book with remaining-copies 0, after a successful returnBook of an open
\* loan on it, an immediately following borrow of it by a different borrower who is
\* under quota and holds no open loan of it succeeds, and remaining-copies is 0 again.
C10_ReturnThenBorrowRoundTrips ==
    \A p \in SeqProcs : \A b \in Books :
        ReturnThenBorrow(p, b) => (result[p] = "OK" /\ db.remain[b] = 0)

\* such a return and borrow have run, and the borrow has succeeded
C10_Witness ==
    \E p \in SeqProcs : \E b \in Books : ReturnThenBorrow(p, b) /\ result[p] = "OK"

\* ---------------------------------------------------------------- borrowers at their quota

\* POST /borrow with the isbn of any title of the table, GET /return/<id>
AllRequests(d) ==
    {[NoCall EXCEPT !.op = "borrow", !.uid = u, !.isbn = i] : u \in Users, i \in Books \cup {UnknownIsbn}}
    \cup {[NoCall EXCEPT !.op = "return", !.uid = u, !.borrow_id = n] :
            u \in Users, n \in 1..(Len(d.rows) + 1)}

\* a handler starts to serve one request of `reqs`; pre and prev are recorded
RequestFrom(p, limit, reqs) ==
    /\ pc[p] \in {"idle", "done"}
    /\ ncalls < limit
    /\ \E c \in reqs :
        /\ call' = [call EXCEPT ![p] = c]
        /\ pc' = [pc EXCEPT ![p] = FirstPc(c)]
    /\ loc' = [loc EXCEPT ![p] = StartLoc(db, call'[p])]
    /\ result' = [result EXCEPT ![p] = "none"]
    /\ pre' = [pre EXCEPT ![p] = db]
    /\ prev' = [prev EXCEPT ![p] =
                  IF pc[p] = "done"
                  THEN [call |-> call[p], result |-> result[p], pre |-> pre[p]]
                  ELSE @]
    /\ ncalls' = ncalls + 1
    /\ UNCHANGED <<db, tx, writer, today>>

\* the database after `uid` has borrowed, one call after the other, the first
\* `n` titles of BookSeq
RECURSIVE BorrowFirst(_, _, _)
BorrowFirst(d, uid, n) ==
    IF n = 0 THEN d
    ELSE SerialBorrow(BorrowFirst(d, uid, n - 1),
                      [NoCall EXCEPT !.op = "borrow", !.uid = uid, !.isbn = BookSeq[n]], 0).db

\* one user holds as many loans as the quota of the user's role allows
InitQuota ==
    /\ db \in {BorrowFirst(EmptyDb, u, Quota(UserRole[u])) : u \in Users}
    /\ tx = db
    /\ writer = 0
    /\ pc = [p \in AllProcs |-> "idle"]
    /\ call = [p \in AllProcs |-> NoCall]
    /\ loc = [p \in AllProcs |-> NoLoc]
    /\ result = [p \in AllProcs |-> "none"]
    /\ pre = [p \in AllProcs |-> db]
    /\ prev = [p \in AllProcs |-> NoPrev]
    /\ today = 0
    /\ ncalls = 0

NextQuota ==
    \/ \E p \in SeqProcs : RequestFrom(p, MaxQuotaCalls, AllRequests(db))
    \/ \E p \in SeqProcs : BorrowSelectBook(p)
    \/ \E p \in SeqProcs : BorrowSelectDup(p)
    \/ \E p \in SeqProcs : BorrowSelectCount(p)
    \/ \E p \in SeqProcs : BorrowInsert(p)
    \/ \E p \in SeqProcs : BorrowUpdateBook(p)
    \/ \E p \in SeqProcs : BorrowCommit(p)
    \/ \E p \in SeqProcs : ReturnSelect(p)
    \/ \E p \in SeqProcs : ReturnUpdateBorrow(p)
    \/ \E p \in SeqProcs : ReturnUpdateBook(p)
    \/ \E p \in SeqProcs : ReturnCommit(p)

\* requests served one after the other to a library where a borrower is at quota
SpecQuota == InitQuota /\ [][NextQuota]_vars

\* the call that ended is a successful return by a borrower who held quota loans
ReturnAtQuota(c, r, d) ==
    /\ c.op = "return"
    /\ r = "OK"
    /\ CountOpen(d.rows, c.uid) = Quota(UserRole[c.uid])

\* C11: when a borrower who holds as many open loans as the quota of their
\* role returns one of them, they hold quota - 1 afterwards; and when their
\* next call borrows a title that is in stock and that they do not hold, it
\* succeeds and they hold quota loans again.
C11_ReturnAtQuotaRestoresCapacity ==
    \A p \in SeqProcs :
        pc[p] = "done" =>
            /\ ReturnAtQuota(call[p], result[p], pre[p])
                => CountOpen(db.rows, call[p].uid) = Quota(UserRole[call[p].uid]) - 1
            /\ ( /\ call[p].op = "borrow"
                 /\ ReturnAtQuota(prev[p].call, prev[p].result, prev[p].pre)
                 /\ prev[p].call.uid = call[p].uid
                 /\ ~NoStock(SelectBook(pre[p], call[p].isbn))
                 /\ OpenOfBook(pre[p].rows, call[p].uid, call[p].isbn) = {} )
                => /\ result[p] = "OK"
                   /\ CountOpen(pre[p].rows, call[p].uid) = Quota(UserRole[call[p].uid]) - 1
                   /\ CountOpen(db.rows, call[p].uid) = Quota(UserRole[call[p].uid])

\* the teacher, holding four loans, has returned one and borrowed the fifth title
C11_Witness ==
    \E p \in SeqProcs :
        /\ pc[p] = "done"
        /\ call[p].op = "borrow"
        /\ call[p].uid = "T001"
        /\ call[p].isbn = BookSeq[5]
        /\ ReturnAtQuota(prev[p].call, prev[p].result, prev[p].pre)
        /\ prev[p].call.uid = "T001"
        /\ result[p] = "OK"
        /\ CountOpen(db.rows, "T001") = TeacherQuota

\* ---------------------------------------------------------------- classes of a teacher

\* mutant of EdgeRows: the query does not filter on class_id
EdgeRows_AnyClass(tc, uid, class_id) == {i \in DOMAIN tc : tc[i].teacher_uid = uid}

\* row numbers of `SELECT 1 FROM teacher_class WHERE teacher_uid=? AND class_id=?`,
\* the rows the PRIMARY KEY (teacher_uid, class_id) compares an insert with
EdgeRows(tc, uid, class_id) ==
    {i \in DOMAIN tc : tc[i].teacher_uid = uid /\ tc[i].class_id = class_id}

\* mutant of InsertOrIgnoreEdge: the table has no primary key
InsertOrIgnoreEdge_NoKey(d, uid, class_id) ==
    [d EXCEPT !.teacher_class = Append(@, [teacher_uid |-> uid, class_id |-> class_id])]

\* `INSERT OR IGNORE INTO teacher_class(teacher_uid, class_id) VALUES(?,?)`
InsertOrIgnoreEdge(d, uid, class_id) ==
    IF EdgeRows(d.teacher_class, uid, class_id) # {}
    THEN d
    ELSE [d EXCEPT !.teacher_class = Append(@, [teacher_uid |-> uid, class_id |-> class_id])]

\* mutant of NotEdge: the DELETE does not filter on teacher_uid
NotEdge_AnyTeacher(row, uid, class_id) == ~(row.class_id = class_id)

NotEdge(row, uid, class_id) == ~(row.teacher_uid = uid /\ row.class_id = class_id)

\* `DELETE FROM teacher_class WHERE teacher_uid=? AND class_id=?`
DeleteEdge(d, uid, class_id) ==
    [d EXCEPT !.teacher_class = SelectSeq(@, LAMBDA row : NotEdge(row, uid, class_id))]

\* mutant of InClassRows: the query does not filter on class_id
InClassRows_AnyClass(uid, class_id) == {u \in DOMAIN StudentClass : u = uid}

\* uids of the rows of `SELECT 1 FROM student WHERE uid=? AND class_id=?`
InClassRows(uid, class_id) ==
    {u \in DOMAIN StudentClass : u = uid /\ StudentClass[u] = class_id}

\* uids of `SELECT ... FROM user u JOIN student s ON u.uid=s.uid WHERE s.class_id=? AND u.role='STU'`
SelectRoster(d, class_id) ==
    {u \in DOMAIN StudentClass : StudentClass[u] = class_id /\ d.user[u].role = "STU"}

\* `if session.get("role") != "TEA": return redirect("/index")`
TeacherGate(p) ==
    /\ pc[p] = "t_gate"
    /\ IF loc[p].session_role # "TEA"
       THEN End(p, "NotTeacher")
       ELSE /\ pc' = [pc EXCEPT ![p] =
                        IF call[p].op \in {"class_add", "class_remove"} THEN "c_form" ELSE "v_related"]
            /\ UNCHANGED result
    /\ UNCHANGED <<db, tx, writer, call, loc, pre, prev, today, ncalls>>

\* class_add / class_remove: `if class_id:`
ClassForm(p) ==
    /\ pc[p] = "c_form"
    /\ IF call[p].class_id = ""
       THEN End(p, "OK")
       ELSE /\ pc' = [pc EXCEPT ![p] = IF call[p].op = "class_add" THEN "ca_insert" ELSE "cr_delete"]
            /\ UNCHANGED result
    /\ UNCHANGED <<db, tx, writer, call, loc, pre, prev, today, ncalls>>

\* Teacher.add_class: the INSERT OR IGNORE
ClassAddInsert(p) ==
    /\ pc[p] = "ca_insert"
    /\ writer = 0
    /\ writer' = p
    /\ tx' = InsertOrIgnoreEdge(db, call[p].uid, call[p].class_id)
    /\ pc' = [pc EXCEPT ![p] = "ca_commit"]
    /\ UNCHANGED <<db, call, loc, result, pre, prev, today, ncalls>>

\* Teacher.add_class: db.commit(), then flash("已关联班级 ...")
ClassAddCommit(p) ==
    /\ pc[p] = "ca_commit"
    /\ writer = p
    /\ db' = tx
    /\ writer' = 0
    /\ End(p, "OK")
    /\ UNCHANGED <<tx, call, loc, pre, prev, today, ncalls>>

\* Teacher.remove_class: the DELETE
ClassRemoveDelete(p) ==
    /\ pc[p] = "cr_delete"
    /\ writer = 0
    /\ writer' = p
    /\ tx' = DeleteEdge(db, call[p].uid, call[p].class_id)
    /\ pc' = [pc EXCEPT ![p] = "cr_commit"]
    /\ UNCHANGED <<db, call, loc, result, pre, prev, today, ncalls>>

\* Teacher.remove_class: db.commit(), then flash("已取消关联 ...")
ClassRemoveCommit(p) ==
    /\ pc[p] = "cr_commit"
    /\ writer = p
    /\ db' = tx
    /\ writer' = 0
    /\ End(p, "OK")
    /\ UNCHANGED <<tx, call, loc, pre, prev, today, ncalls>>

\* teacher_class_students / teacher_student_borrow: `is_related`, else
\* flash("无权查看该班级") and the redirect
ViewRelated(p) ==
    /\ pc[p] = "v_related"
    /\ IF EdgeRows(db.teacher_class, call[p].uid, call[p].class_id) = {}
       THEN /\ End(p, "Forbidden")
            /\ loc' = [loc EXCEPT ![p].flash = @ \cup {"no access to this class"}]
       ELSE /\ pc' = [pc EXCEPT ![p] =
                        IF call[p].op = "class_students" THEN "v_students" ELSE "v_inclass"]
            /\ UNCHANGED <<result, loc>>
    /\ UNCHANGED <<db, tx, writer, call, pre, prev, today, ncalls>>

\* teacher_class_students: the students of the class, rendered
ViewStudents(p) ==
    /\ pc[p] = "v_students"
    /\ loc' = [loc EXCEPT ![p].view = [kind |-> "roster",
                                        students |-> SelectRoster(db, call[p].class_id),
                                        loans |-> {}]]
    /\ End(p, "OK")
    /\ UNCHANGED <<db, tx, writer, call, pre, prev, today, ncalls>>

\* teacher_student_borrow: `is_in_class`, else flash("学生不在该班级") and the redirect
ViewInClass(p) ==
    /\ pc[p] = "v_inclass"
    /\ IF InClassRows(call[p].student_uid, call[p].class_id) = {}
       THEN /\ End(p, "NotInClass")
            /\ loc' = [loc EXCEPT ![p].flash = @ \cup {"student not in this class"}]
       ELSE /\ pc' = [pc EXCEPT ![p] = "v_borrows"]
            /\ UNCHANGED <<result, loc>>
    /\ UNCHANGED <<db, tx, writer, call, pre, prev, today, ncalls>>

\* teacher_student_borrow: the open loans of the student, rendered
ViewBorrows(p) ==
    /\ pc[p] = "v_borrows"
    /\ loc' = [loc EXCEPT ![p].view = [kind |-> "loans",
                                        students |-> {call[p].student_uid},
                                        loans |-> OpenOf(db.rows, call[p].student_uid)]]
    /\ End(p, "OK")
    /\ UNCHANGED <<db, tx, writer, call, pre, prev, today, ncalls>>

\* Teacher.class_borrow: the query names the column st.name, which the student
\* table does not have, so execute raises sqlite3.OperationalError and no row
\* is returned; no route calls the method
ClassBorrow(p) ==
    /\ pc[p] = "cb_select"
    /\ End(p, "OperationalError")
    /\ UNCHANGED <<db, tx, writer, call, loc, pre, prev, today, ncalls>>

\* POST /class/add, POST /class/remove, GET /teacher/class_borrow/<class_id>,
\* GET /teacher/student_borrow/<class_id>/<student_uid> from any session, and
\* Teacher.class_borrow on a teacher
ClassRequests ==
    {[NoCall EXCEPT !.op = o, !.uid = u, !.class_id = c] :
        o \in {"class_add", "class_remove"}, u \in Users, c \in Classes \cup {""}}
    \cup {[NoCall EXCEPT !.op = "class_students", !.uid = u, !.class_id = c] :
        u \in Users, c \in Classes}
    \cup {[NoCall EXCEPT !.op = "student_borrow", !.uid = u, !.class_id = c, !.student_uid = st] :
        u \in Users, c \in Classes, st \in Users}
    \cup {[NoCall EXCEPT !.op = "class_borrow", !.uid = u, !.class_id = c] :
        u \in {x \in Users : UserRole[x] = "TEA"}, c \in Classes}

\* the databases the class handlers start from: the teacher has dissociated
\* from none, one or both of the seeded classes, S001 holds no loan or one,
\* and the second seeded teacher, T002, has associated with C001 or not
ClassDbs ==
    LET loans == {EmptyDb, BorrowFirst(EmptyDb, "S001", 1)}
        one == loans \cup {DeleteEdge(d, "T001", "C001") : d \in loans}
        two == one \cup {DeleteEdge(d, "T001", "C002") : d \in one}
    IN  two \cup {InsertOrIgnoreEdge(d, "T002", "C001") : d \in two}

InitClass ==
    /\ db \in ClassDbs
    /\ tx = db
    /\ writer = 0
    /\ pc = [p \in AllProcs |-> "idle"]
    /\ call = [p \in AllProcs |-> NoCall]
    /\ loc = [p \in AllProcs |-> NoLoc]
    /\ result = [p \in AllProcs |-> "none"]
    /\ pre = [p \in AllProcs |-> db]
    /\ prev = [p \in AllProcs |-> NoPrev]
    /\ today = 0
    /\ ncalls = 0

NextClass ==
    \/ \E p \in SeqProcs : RequestFrom(p, MaxClassCalls, ClassRequests)
    \/ \E p \in SeqProcs : TeacherGate(p)
    \/ \E p \in SeqProcs : ClassForm(p)
    \/ \E p \in SeqProcs : ClassAddInsert(p)
    \/ \E p \in SeqProcs : ClassAddCommit(p)
    \/ \E p \in SeqProcs : ClassRemoveDelete(p)
    \/ \E p \in SeqProcs : ClassRemoveCommit(p)
    \/ \E p \in SeqProcs : ViewRelated(p)
    \/ \E p \in SeqProcs : ViewStudents(p)
    \/ \E p \in SeqProcs : ViewInClass(p)
    \/ \E p \in SeqProcs : ViewBorrows(p)
    \/ \E p \in SeqProcs : ClassBorrow(p)

\* class requests served one after the other
SpecClass == InitClass /\ [][NextClass]_vars

\* the handler has served two add_class calls of the same teacher and class in a row
AddedTwice(p) ==
    /\ pc[p] = "done"
    /\ call[p].op = "class_add"
    /\ call[p].class_id # ""
    /\ loc[p].session_role = "TEA"
    /\ prev[p].call = call[p]
    /\ prev[p].result = "OK"

\* C12: associating a teacher with a class twice in a row leaves the
\* teacher_class table as it was after the first call, with the edge in it
\* once, and the second call ends without an error.
C12_AssociateTwiceEqualsOnce ==
    \A p \in SeqProcs :
        AddedTwice(p) =>
            /\ result[p] = "OK"
            /\ db.teacher_class = pre[p].teacher_class
            /\ Cardinality(EdgeRows(db.teacher_class, call[p].uid, call[p].class_id)) = 1

\* the first of the two calls added an edge that was not there
C12_Witness ==
    \E p \in SeqProcs :
        /\ AddedTwice(p)
        /\ EdgeRows(prev[p].pre.teacher_class, call[p].uid, call[p].class_id) = {}
        /\ result[p] = "OK"
        /\ EdgeRows(db.teacher_class, call[p].uid, call[p].class_id) # {}

\* the (teacher, class) edge of the call is in the teacher_class table of `d`
Related(d, c) ==
    \E i \in DOMAIN d.teacher_class :
        d.teacher_class[i] = [teacher_uid |-> c.uid, class_id |-> c.class_id]

C14_StudentLoansNeedEdgeAndMembership ==
    \A p \in SeqProcs :
        (pc[p] = "done" /\ call[p].op = "student_borrow") =>
            /\ result[p] = "OK" =>
                    /\ UserRole[call[p].uid] = "TEA"
                    /\ Related(pre[p], call[p])
                    /\ call[p].student_uid \in DOMAIN StudentClass
                    /\ StudentClass[call[p].student_uid] = call[p].class_id
                    /\ loc[p].view = [kind |-> "loans",
                                      students |-> {call[p].student_uid},
                                      loans |-> OpenOf(pre[p].rows, call[p].student_uid)]
            /\ (UserRole[call[p].uid] = "TEA" /\ ~Related(pre[p], call[p]))
                    => result[p] = "Forbidden"
            /\ ( /\ UserRole[call[p].uid] = "TEA"
                 /\ Related(pre[p], call[p])
                 /\ \/ call[p].student_uid \notin DOMAIN StudentClass
                    \/ StudentClass[call[p].student_uid] # call[p].class_id )
                    => result[p] = "NotInClass"
            /\ result[p] # "OK" => loc[p].view = NoView

\* the teacher, associated with the class, asked for the loans of a student
\* of another class, who holds a loan
C14_Witness ==
    \E p \in SeqProcs :
        /\ pc[p] = "done"
        /\ call[p].op = "student_borrow"
        /\ Related(pre[p], call[p])
        /\ call[p].student_uid \in DOMAIN StudentClass
        /\ StudentClass[call[p].student_uid] # call[p].class_id
        /\ OpenOf(db.rows, call[p].student_uid) # {}
        /\ result[p] = "NotInClass"
        /\ loc[p].view = NoView

\* the limit the text of OutOfQuota gives for a role
LimitInMessage(msg, role) == IF role = "TEA" THEN msg.teacher_limit ELSE msg.student_limit

\* C15: when a borrow call ends with OutOfQuota, the text of the failure
\* gives, for the role of the borrower, the limit of that role (4 for a
\* teacher, 2 for a student), and gives as the current count the number of
\* open loans the borrower held when the call started.
C15_OutOfQuotaReportsLimitAndCount ==
    \A p \in SeqProcs :
        (pc[p] = "done" /\ call[p].op = "borrow" /\ result[p] = "OutOfQuota") =>
            /\ LimitInMessage(loc[p].msg, UserRole[call[p].uid])
                    = (IF UserRole[call[p].uid] = "TEA" THEN 4 ELSE 2)
            /\ loc[p].msg.current = CountOpen(pre[p].rows, call[p].uid)

\* a student holding two loans asked for a third title that is in stock
C15_Witness ==
    \E p \in SeqProcs :
        /\ pc[p] = "done"
        /\ call[p].op = "borrow"
        /\ UserRole[call[p].uid] = "STU"
        /\ CountOpen(pre[p].rows, call[p].uid) = 2
        /\ ~NoStock(SelectBook(pre[p], call[p].isbn))
        /\ OpenOfBook(pre[p].rows, call[p].uid, call[p].isbn) = {}
        /\ result[p] = "OutOfQuota"
        /\ loc[p].msg = [teacher_limit |-> 4, student_limit |-> 2, current |-> 2]

\* ---------------------------------------------------------------- storage faults

\* mutant of StorageFault: the writes made so far are published
StorageFault_Publishes(p) ==
    /\ pc[p] \in {"b_update", "b_commit", "r_book", "r_commit"}
    /\ writer = p
    /\ db' = tx
    /\ writer' = 0
    /\ End(p, "StorageFault")
    /\ UNCHANGED <<tx, call, loc, pre, prev, today, ncalls>>

\* a statement after the first write, or the commit, raises sqlite3.Error:
\* the exception leaves `with closing(get_db()) as db`, which closes the
\* connection without a commit, and SQLite rolls the open transaction back
StorageFault(p) ==
    /\ pc[p] \in {"b_update", "b_commit", "r_book", "r_commit"}
    /\ writer = p
    /\ tx' = db
    /\ writer' = 0
    /\ End(p, "StorageFault")
    /\ UNCHANGED <<db, call, loc, pre, prev, today, ncalls>>

\* the state init_db leaves, on any day
InitTx ==
    /\ db = EmptyDb
    /\ tx = EmptyDb
    /\ writer = 0
    /\ pc = [p \in AllProcs |-> "idle"]
    /\ call = [p \in AllProcs |-> NoCall]
    /\ loc = [p \in AllProcs |-> NoLoc]
    /\ result = [p \in AllProcs |-> "none"]
    /\ pre = [p \in AllProcs |-> EmptyDb]
    /\ prev = [p \in AllProcs |-> NoPrev]
    /\ today \in 0..MaxDay
    /\ ncalls = 0

NextTx ==
    \/ \E p \in SeqProcs : RequestFrom(p, MaxTxCalls, Requests(db))
    \/ \E p \in SeqProcs : BorrowSelectBook(p)
    \/ \E p \in SeqProcs : BorrowSelectDup(p)
    \/ \E p \in SeqProcs : BorrowSelectCount(p)
    \/ \E p \in SeqProcs : BorrowInsert(p)
    \/ \E p \in SeqProcs : BorrowUpdateBook(p)
    \/ \E p \in SeqProcs : BorrowCommit(p)
    \/ \E p \in SeqProcs : ReturnSelect(p)
    \/ \E p \in SeqProcs : ReturnUpdateBorrow(p)
    \/ \E p \in SeqProcs : ReturnUpdateBook(p)
    \/ \E p \in SeqProcs : ReturnCommit(p)
    \/ \E p \in SeqProcs : StorageFault(p)

\* requests served one after the other, any of which may meet a storage fault
SpecTx == InitTx /\ [][NextTx]_vars

\* C16: when a storage fault ends a borrow or a return after its first write
\* and before its commit has completed, the committed database is the one the
\* call started in: no loan inserted or closed, no remain changed, and the
\* write lock is free.
C16_FaultCommitsNothing ==
    \A p \in SeqProcs :
        (pc[p] = "done" /\ result[p] = "StorageFault") =>
            /\ db = pre[p]
            /\ writer = 0

\* a return met the fault between its two UPDATEs or at its commit
C16_Witness ==
    \E p \in SeqProcs :
        /\ pc[p] = "done"
        /\ call[p].op = "return"
        /\ result[p] = "StorageFault"
        /\ call[p].borrow_id \in OpenOf(db.rows, call[p].uid)

\* C19: a borrow that ends OK has added exactly one row to the borrow table,
\* under an id one above the highest id there was, with the borrower and the
\* isbn of the call, returned = 0, the day of the call as borrow date and that
\* day + 90 as due date, and has taken 1 from the remain of that isbn; every
\* other row, every other remain and the user and teacher_class tables are
\* as they were when the call started.
C19_BorrowChangesOnlyItsLoanAndTitle ==
    \A p \in SeqProcs :
        (pc[p] = "done" /\ call[p].op = "borrow" /\ result[p] = "OK") =>
            /\ Len(db.rows) = Len(pre[p].rows) + 1
            /\ SubSeq(db.rows, 1, Len(pre[p].rows)) = pre[p].rows
            /\ db.rows[Len(db.rows)] = [uid |-> call[p].uid, isbn |-> call[p].isbn,
                                        borrow_date |-> today, due_date |-> today + 90,
                                        returned |-> 0]
            /\ call[p].isbn \in Books
            /\ db.remain = [pre[p].remain EXCEPT ![call[p].isbn] = @ - 1]
            /\ db.user = pre[p].user
            /\ db.teacher_class = pre[p].teacher_class

\* a borrow ended OK on a day after day 0, in a library that already had a
\* loan, and left other titles at their stock
C19_Witness ==
    \E p \in SeqProcs :
        /\ pc[p] = "done"
        /\ call[p].op = "borrow"
        /\ result[p] = "OK"
        /\ today > 0
        /\ Len(pre[p].rows) > 0
        /\ db.rows[Len(db.rows)].due_date = today + 90
        /\ db.remain[call[p].isbn] = pre[p].remain[call[p].isbn] - 1

\* C20: a return that ends OK has set returned on the row of the call's id,
\* which was open, and added 1 to the remain of the isbn of that row; every
\* other row, every other remain and the user and teacher_class tables are
\* as they were when the call started.
C20_ReturnChangesOnlyItsLoanAndTitle ==
    \A p \in SeqProcs :
        (pc[p] = "done" /\ call[p].op = "return" /\ result[p] = "OK") =>
            /\ call[p].borrow_id \in 1..Len(pre[p].rows)
            /\ pre[p].rows[call[p].borrow_id].returned = 0
            /\ db.rows = [pre[p].rows EXCEPT ![call[p].borrow_id].returned = 1]
            /\ db.remain = [pre[p].remain EXCEPT ![pre[p].rows[call[p].borrow_id].isbn] = @ + 1]
            /\ db.user = pre[p].user
            /\ db.teacher_class = pre[p].teacher_class

\* a return ended OK while another loan of the same title stayed open
C20_Witness ==
    \E p \in SeqProcs :
        /\ pc[p] = "done"
        /\ call[p].op = "return"
        /\ result[p] = "OK"
        /\ db.rows[call[p].borrow_id].returned = 1
        /\ OpenLoansOn(db.rows, db.rows[call[p].borrow_id].isbn) # {}

\* ---------------------------------------------------------------- login and profile

\* str.strip() on a name given as the sequence of its characters
RECURSIVE StripLeft(_)
StripLeft(s) == IF s # <<>> /\ Head(s) = " " THEN StripLeft(Tail(s)) ELSE s
RECURSIVE StripRight(_)
StripRight(s) == IF s # <<>> /\ s[Len(s)] = " " THEN StripRight(SubSeq(s, 1, Len(s) - 1)) ELSE s
Strip(s) == StripRight(StripLeft(s))

\* the name setter: `if not value: raise ValueError("姓名不能为空")`
NameRejected(value) == value = <<>>

\* int(new_age) for the texts the clients send; IsInt tells whether int() accepts the text
IsInt(text) == text \in {"0", "21"}
IntOf(text) == IF text = "21" THEN 21 ELSE 0

\* the age setter: `if value <= 0: raise ValueError("年龄必须为正整数")`
AgeRejected(value) == value <= 0

\* `UPDATE user SET name=? WHERE uid=?`
SetName(d, uid, value) == [d EXCEPT !.user[uid].name = value]

\* `UPDATE user SET age=? WHERE uid=?`
SetAge(d, uid, value) == [d EXCEPT !.user[uid].age = value]

\* user_update: new_name = request.form.get("name", "").strip(); `if new_name:`
\* then the check of the name setter
UpdateNameCheck(p) ==
    /\ pc[p] = "u_name"
    /\ LET new_name == Strip(call[p].name) IN
        IF new_name = <<>>
        THEN /\ pc' = [pc EXCEPT ![p] = "u_age"]
             /\ UNCHANGED loc
        ELSE IF NameRejected(new_name)
        THEN /\ pc' = [pc EXCEPT ![p] = "u_age"]
             /\ loc' = [loc EXCEPT ![p].flash = @ \cup {"name must not be empty"}]
        ELSE /\ pc' = [pc EXCEPT ![p] = "u_name_write"]
             /\ UNCHANGED loc
    /\ UNCHANGED <<db, tx, writer, call, result, pre, prev, today, ncalls>>

\* the name setter: the UPDATE
UpdateNameWrite(p) ==
    /\ pc[p] = "u_name_write"
    /\ writer = 0
    /\ writer' = p
    /\ tx' = SetName(db, call[p].uid, Strip(call[p].name))
    /\ pc' = [pc EXCEPT ![p] = "u_name_commit"]
    /\ UNCHANGED <<db, call, loc, result, pre, prev, today, ncalls>>

\* the name setter: db.commit(), self._name = value, then flash("姓名已更新")
UpdateNameCommit(p) ==
    /\ pc[p] = "u_name_commit"
    /\ writer = p
    /\ db' = tx
    /\ writer' = 0
    /\ loc' = [loc EXCEPT ![p].name = Strip(call[p].name),
                          ![p].flash = @ \cup {"name updated"}]
    /\ pc' = [pc EXCEPT ![p] = "u_age"]
    /\ UNCHANGED <<tx, call, result, pre, prev, today, ncalls>>

\* user_update: `if new_age:`, int(new_age), then the check of the age setter;
\* a text int() refuses and an age the setter refuses get the same flash
UpdateAgeCheck(p) ==
    /\ pc[p] = "u_age"
    /\ IF call[p].age = ""
       THEN /\ End(p, "OK")
            /\ UNCHANGED loc
       ELSE IF ~IsInt(call[p].age) \/ AgeRejected(IntOf(call[p].age))
       THEN /\ End(p, "OK")
            /\ loc' = [loc EXCEPT ![p].flash = @ \cup {"age must be a positive integer"}]
       ELSE /\ pc' = [pc EXCEPT ![p] = "u_age_write"]
            /\ UNCHANGED <<result, loc>>
    /\ UNCHANGED <<db, tx, writer, call, pre, prev, today, ncalls>>

\* the age setter: the UPDATE
UpdateAgeWrite(p) ==
    /\ pc[p] = "u_age_write"
    /\ writer = 0
    /\ writer' = p
    /\ tx' = SetAge(db, call[p].uid, IntOf(call[p].age))
    /\ pc' = [pc EXCEPT ![p] = "u_age_commit"]
    /\ UNCHANGED <<db, call, loc, result, pre, prev, today, ncalls>>

\* the age setter: db.commit(), then flash("年龄已更新") and the redirect
UpdateAgeCommit(p) ==
    /\ pc[p] = "u_age_commit"
    /\ writer = p
    /\ db' = tx
    /\ writer' = 0
    /\ loc' = [loc EXCEPT ![p].flash = @ \cup {"age updated"}]
    /\ End(p, "OK")
    /\ UNCHANGED <<tx, call, pre, prev, today, ncalls>>

\* User.login: the row of the uid and the password check, then a Teacher or
\* a Student object, whose role the route stores in the session
LoginSelect(p) ==
    /\ pc[p] = "l_select"
    /\ IF call[p].uid \notin DOMAIN db.user \/ Passwords[call[p].uid] # call[p].pwd
       THEN /\ End(p, "AuthFail")
            /\ UNCHANGED loc
       ELSE /\ End(p, "OK")
            /\ loc' = [loc EXCEPT ![p].role = SessionRole(db, call[p].uid),
                                  ![p].session_role = SessionRole(db, call[p].uid),
                                  ![p].name = db.user[call[p].uid].name]
    /\ UNCHANGED <<db, tx, writer, call, pre, prev, today, ncalls>>

\* the texts of the name field: empty, blanks only, a name, a name between blanks
NameForms == {<<>>, <<" ", " ">>, <<"C">>, <<" ", "C", " ">>}

\* the texts of the age field, trimmed: empty, not positive, an age, not a number
AgeForms == {"", "0", "21", "x"}

\* POST /user/update from the session of any user
UpdateRequests ==
    {[NoCall EXCEPT !.op = "update", !.uid = u, !.name = n, !.age = a] :
        u \in Users, n \in NameForms, a \in AgeForms}

\* POST / with the uid of a user or of nobody and one of the seeded passwords
LoginRequests ==
    {[NoCall EXCEPT !.op = "login", !.uid = u, !.pwd = w] :
        u \in Users \cup {"X000"}, w \in {"123456", "111"}}

NextAll ==
    \/ \E p \in SeqProcs : RequestFrom(p, MaxAllCalls,
                                Requests(db) \cup ClassRequests \cup UpdateRequests \cup LoginRequests)
    \/ \E p \in SeqProcs : BorrowSelectBook(p)
    \/ \E p \in SeqProcs : BorrowSelectDup(p)
    \/ \E p \in SeqProcs : BorrowSelectCount(p)
    \/ \E p \in SeqProcs : BorrowInsert(p)
    \/ \E p \in SeqProcs : BorrowUpdateBook(p)
    \/ \E p \in SeqProcs : BorrowCommit(p)
    \/ \E p \in SeqProcs : ReturnSelect(p)
    \/ \E p \in SeqProcs : ReturnUpdateBorrow(p)
    \/ \E p \in SeqProcs : ReturnUpdateBook(p)
    \/ \E p \in SeqProcs : ReturnCommit(p)
    \/ \E p \in SeqProcs : TeacherGate(p)
    \/ \E p \in SeqProcs : ClassForm(p)
    \/ \E p \in SeqProcs : ClassAddInsert(p)
    \/ \E p \in SeqProcs : ClassAddCommit(p)
    \/ \E p \in SeqProcs : ClassRemoveDelete(p)
    \/ \E p \in SeqProcs : ClassRemoveCommit(p)
    \/ \E p \in SeqProcs : ViewRelated(p)
    \/ \E p \in SeqProcs : ViewStudents(p)
    \/ \E p \in SeqProcs : ViewInClass(p)
    \/ \E p \in SeqProcs : ViewBorrows(p)
    \/ \E p \in SeqProcs : ClassBorrow(p)
    \/ \E p \in SeqProcs : UpdateNameCheck(p)
    \/ \E p \in SeqProcs : UpdateNameWrite(p)
    \/ \E p \in SeqProcs : UpdateNameCommit(p)
    \/ \E p \in SeqProcs : UpdateAgeCheck(p)
    \/ \E p \in SeqProcs : UpdateAgeWrite(p)
    \/ \E p \in SeqProcs : UpdateAgeCommit(p)
    \/ \E p \in SeqProcs : LoginSelect(p)

\* requests of every kind served one after the other
SpecAll == Init /\ [][NextAll]_vars

\* C17: a request to rename a user to a name that is empty or only blanks
\* once trimmed ends with the validation error of the name and leaves the
\* stored name and the name of the user object as they were; a request with
\* any other name makes both the trimmed new name.
C17_BlankRenameFailsOtherRenames ==
    \A p \in SeqProcs :
        (pc[p] = "done" /\ call[p].op = "update") =>
            IF Strip(call[p].name) = <<>>
            THEN /\ "name must not be empty" \in loc[p].flash
                 /\ db.user[call[p].uid].name = pre[p].user[call[p].uid].name
                 /\ loc[p].name = pre[p].user[call[p].uid].name
            ELSE /\ db.user[call[p].uid].name = Strip(call[p].name)
                 /\ loc[p].name = Strip(call[p].name)

\* C18: the role stored for a user is in every state the role the user was
\* created with, whatever requests were served, and a handler that serves a
\* borrow holds, from current_user to the quota check, that stored role.
C18_StoredRoleFixedAndUsedForQuota ==
    /\ \A u \in Users : db.user[u].role = UserRole[u] /\ tx.user[u].role = UserRole[u]
    /\ \A p \in SeqProcs :
        (call[p].op = "borrow" /\ pc[p] # "idle") => loc[p].role = db.user[call[p].uid].role
    /\ \A p \in SeqProcs :
        (call[p].op = "login" /\ pc[p] = "done" /\ result[p] = "OK")
            => loc[p].session_role = db.user[call[p].uid].role

\* the teacher, renamed by the previous request, has passed the quota check
\* of a borrow as a teacher
C18_Witness ==
    \E p \in SeqProcs :
        /\ call[p].op = "borrow"
        /\ call[p].uid = "T001"
        /\ pc[p] = "b_insert"
        /\ prev[p].call.op = "update"
        /\ db.user["T001"].name # InitName["T001"]
        /\ loc[p].role = "TEA"

\* C21: a borrow that ends with NoBook, HasBorrowed or OutOfQuota has changed
\* nothing: the borrow table, every remain and the other tables are those of
\* the database the call started in, and no write is pending.
C21_FailedBorrowChangesNothing ==
    \A p \in SeqProcs :
        ( /\ pc[p] = "done"
          /\ call[p].op = "borrow"
          /\ result[p] \in {"NoBook", "HasBorrowed", "OutOfQuota"} )
            => /\ db.rows = pre[p].rows
               /\ db.remain = pre[p].remain
               /\ db = pre[p]
               /\ writer = 0

\* the last copy of a title is lent, and the borrow of that title by a user
\* who does not hold it ended with NoBook, the title at 0 and no loan for them
C21_Witness ==
    \E p \in SeqProcs :
        /\ pc[p] = "done"
        /\ call[p].op = "borrow"
        /\ call[p].isbn \in Books
        /\ result[p] = "NoBook"
        /\ OpenLoansOn(pre[p].rows, call[p].isbn) # {}
        /\ db.remain[call[p].isbn] = 0
        /\ OpenOfBook(db.rows, call[p].uid, call[p].isbn) = {}

\* the row `i` of the borrow table is kept by a step: still there, with the
\* same borrower, isbn and dates, and still returned if it was
RowKept(i) ==
    /\ i <= Len(db'.rows)
    /\ db'.rows[i].uid = db.rows[i].uid
    /\ db'.rows[i].isbn = db.rows[i].isbn
    /\ db'.rows[i].borrow_date = db.rows[i].borrow_date
    /\ db'.rows[i].due_date = db.rows[i].due_date
    /\ db.rows[i].returned = 1 => db'.rows[i].returned = 1

\* C22: no step of a borrow or of a return deletes a row of the borrow table,
\* gives it another borrower or isbn, or clears its returned flag: a loan that
\* is returned is returned in every later state.
C22_ReturnedIsOneWay == [][\A i \in 1..Len(db.rows) : RowKept(i)]_vars

\* a loan was returned and, by the next call, another loan was lent after it
C22_Witness ==
    \E p \in SeqProcs :
        /\ pc[p] = "done"
        /\ call[p].op = "borrow"
        /\ result[p] = "OK"
        /\ prev[p].call.op = "return"
        /\ prev[p].result = "OK"
        /\ db.rows[prev[p].call.borrow_id].returned = 1
        /\ Len(db.rows) > prev[p].call.borrow_id

\* the rows of the teacher_class table of `d`, as a set
Edges(d) == {d.teacher_class[i] : i \in DOMAIN d.teacher_class}

\* the step commits the add_class of the edge `e`
AddCommits(e) ==
    \E p \in SeqProcs :
        /\ pc[p] = "ca_commit"
        /\ pc'[p] = "done"
        /\ e = [teacher_uid |-> call[p].uid, class_id |-> call[p].class_id]

\* C23: a remove_class that has completed leaves the teacher_class table
\* without the edge of the call and with every other edge it had; an edge
\* that is not in the table comes back only by the commit of an add_class of
\* that teacher and class; and a teacher's request for the roster of a class,
\* or for the loans of a student in it, is refused with nothing rendered
\* whenever the edge is not in the table when the request is served, however
\* the session was set up.
C23_AccessFollowsCurrentEdges ==
    /\ [](\A p \in SeqProcs :
            /\ ( /\ pc[p] = "done"
                 /\ call[p].op = "class_remove"
                 /\ call[p].class_id # ""
                 /\ UserRole[call[p].uid] = "TEA" )
                => /\ result[p] = "OK"
                   /\ Edges(db) = Edges(pre[p])
                                      \ {[teacher_uid |-> call[p].uid, class_id |-> call[p].class_id]}
            /\ ( /\ pc[p] = "done"
                 /\ call[p].op \in {"class_students", "student_borrow"}
                 /\ UserRole[call[p].uid] = "TEA"
                 /\ ~Related(pre[p], call[p]) )
                => /\ result[p] = "Forbidden"
                   /\ loc[p].view = NoView)
    /\ [][\A e \in Edges(db') \ Edges(db) : AddCommits(e)]_vars

\* the teacher dissociated from a class they were associated with, another
\* edge stayed, and their next request for that class was refused
C23_Witness ==
    \E p \in SeqProcs :
        /\ pc[p] = "done"
        /\ call[p].op \in {"class_students", "student_borrow"}
        /\ prev[p].call.op = "class_remove"
        /\ prev[p].result = "OK"
        /\ prev[p].call.uid = call[p].uid
        /\ prev[p].call.class_id = call[p].class_id
        /\ Related(prev[p].pre, call[p])
        /\ Edges(db) # {}
        /\ result[p] = "Forbidden"
====
